---- MODULE Spec2Model ----
(***************************************************************************)
(* Client-side virtual file system of ResearStudio.                        *)
(*                                                                         *)
(*   EnhancedFileSystemManager  (file-system-manager: fileMap, openTabs,   *)
(*                               activeTab, undo/redo history, external    *)
(*                               merge)                                    *)
(*   FileSystemManager          (computer-view: files, openTabs,           *)
(*                               activeTab)                                *)
(*   normalizeFilename          (lib/utils)                                *)
(*                                                                         *)
(* Strings are sequences of one-character tokens, so that startsWith,      *)
(* substring, lastIndexOf and concatenation are computed as the code       *)
(* computes them.  The tokens "ws" and "WS" stand for the nine letters of  *)
(* "workspace" written in lower case and in any other letter case.         *)
(***************************************************************************)
EXTENDS Integers, Sequences, FiniteSets, TLC

VARIABLES
  fileMap,      \* EnhancedFileSystemManager.fileMap : path -> FileSystemNode
  openTabs,     \* EnhancedFileSystemManager.openTabs
  activeTab,    \* EnhancedFileSystemManager.activeTab (Null when null)
  threw,        \* TRUE iff the last EnhancedFileSystemManager call threw
  saved,        \* observer: per file path, its content at creation / last saveFile
  pushes,       \* observer: per file path, saveToHistory calls since creation / last saveFile
  files,        \* FileSystemManager.files : filename -> FileState
  fsOpenTabs,   \* FileSystemManager.openTabs
  fsActiveTab,  \* FileSystemManager.activeTab (Null when null)
  nf,           \* normalizeFilename under test: input and the results of applying it
  last,         \* observer: the last operation called, with its arguments
  vfs,          \* FileSystemManager.virtualFileStructure
  silentMode,   \* FileSystemManager.silentMode
  listeners,    \* FileSystemManager.listeners
  invoked,      \* observer: the listeners the last call invoked
  stale,        \* observer: TRUE iff a notify() was suppressed and no listener was invoked since
  twin,         \* observer: files, tabs and structure of the same calls made with silent mode off
  timers,       \* ComputerView: the pending timers of handleFileContentChange
  saving        \* ComputerView: the handleSave calls awaiting the save request, each with
                \* the filename and the content it sent

eVars == <<fileMap, openTabs, activeTab, threw, saved, pushes>>
fVars == <<files, fsOpenTabs, fsActiveTab>>
nVars == <<vfs, silentMode, listeners, invoked, stale, twin>>
cVars == <<timers, saving>>
vars == <<fileMap, openTabs, activeTab, threw, saved, pushes, files, fsOpenTabs, fsActiveTab, nf, last,
          vfs, silentMode, listeners, invoked, stale, twin, timers, saving>>

\* ---------------------------------------------------------------- bounds
\* Stand-in for the history limit 50 of saveToHistory; the code is the same
\* for every limit, the model runs it with a small one.
HistoryCap == 3
\* Longest raw string handed to normalizeFilename.
MaxPathLen == 4
\* Most entries of a content map handed to updateFileContentMap.
MaxMapEntries == 1
\* Most tabs the tree specifications open: renaming an open file and opening
\* its old path again adds tabs without end.
MaxTabs == 2
\* Most handleSave calls awaiting their request at one time.
MaxInFlight == 2

\* ---------------------------------------------------------------- values
\* null for a path-valued field: a sequence that no string of path tokens equals
Null == <<"null">>
\* undefined for a content-valued field
Undefined == "undefined"
\* the empty string ''; also stands for an undefined name or parent, which the
\* code only tests for falsiness (name || ..., node.parent || '/')
Empty == <<>>
Slash == "/"

\* File contents: '' and two non-empty texts.
Contents == {"", "A", "B"}

\* ------------------------------------------------- generic string helpers
StartsWith(s, pre) ==
  /\ Len(s) >= Len(pre)
  /\ SubSeq(s, 1, Len(pre)) = pre

\* s.substring(n)
Substring(s, n) == SubSeq(s, n + 1, Len(s))

\* s.lastIndexOf('/'), zero-based, -1 when absent
LastSlash(s) ==
  LET idx == {i \in 1..Len(s) : s[i] = Slash}
  IN IF idx = {} THEN -1 ELSE (CHOOSE i \in idx : \A j \in idx : j <= i) - 1

\* array.indexOf(x), zero-based, -1 when absent
IndexOf(seq, x) ==
  LET idx == {i \in 1..Len(seq) : seq[i] = x}
  IN IF idx = {} THEN -1 ELSE (CHOOSE i \in idx : \A j \in idx : i <= j) - 1

Includes(seq, x) == \E i \in 1..Len(seq) : seq[i] = x

\* array.splice(i, 1) with zero-based i
Splice(seq, i) == SubSeq(seq, 1, i) \o SubSeq(seq, i + 2, Len(seq))

Min(a, b) == IF a < b THEN a ELSE b

\* JavaScript `c || ''` on a string or undefined
OrEmpty(c) == IF c = Undefined THEN "" ELSE c

\* ------------------------------- EnhancedFileSystemManager: path utilities
normalizePath(path) ==
  IF path = Empty THEN <<Slash>>
  ELSE IF path = <<Slash>> THEN <<Slash>>
  ELSE IF StartsWith(path, <<Slash>>) THEN path ELSE <<Slash>> \o path

joinPath(parent, name) ==
  LET normalizedParent == normalizePath(parent)
  IN IF normalizedParent = <<Slash>> THEN <<Slash>> \o name
     ELSE normalizedParent \o <<Slash>> \o name

getParentPath(path) ==
  LET normalizedPath == normalizePath(path)
      lastSlash == LastSlash(normalizedPath)
  IN IF normalizedPath = <<Slash>> THEN <<Slash>>
     ELSE IF lastSlash <= 0 THEN <<Slash>>
     ELSE SubSeq(normalizedPath, 1, lastSlash)

getFileName(path) ==
  LET normalizedPath == normalizePath(path)
  IN IF normalizedPath = <<Slash>> THEN <<"r", "o", "o", "t">>
     ELSE Substring(normalizedPath, LastSlash(normalizedPath) + 1)

\* /^[a-zA-Z0-9._-]+$/ and 0 < length < 255
NameChars == {"a", "b", "d", "."}
isValidFileName(name) ==
  /\ \A i \in 1..Len(name) : name[i] \in NameChars
  /\ Len(name) > 0
  /\ Len(name) < 255

\* ---------------------------------- EnhancedFileSystemManager: the nodes
\* A directory has no content and no history: content is Undefined, and the
\* undefined history is the empty sequence with index -1, which every test of
\* the code (!node.history?.length, node.history && ..., historyIndex ?? -1)
\* treats alike.
RootNode ==
  [path |-> <<Slash>>, name |-> <<"r", "o", "o", "t">>, type |-> "directory",
   content |-> Undefined, parent |-> Empty,
   isDirty |-> FALSE, isNew |-> FALSE, isLocked |-> FALSE,
   isOpen |-> FALSE, isActive |-> FALSE,
   history |-> <<>>, historyIndex |-> -1]

DirectoryNode(path, name, parent, isNew) ==
  [path |-> path, name |-> name, type |-> "directory",
   content |-> Undefined, parent |-> parent,
   isDirty |-> FALSE, isNew |-> isNew, isLocked |-> FALSE,
   isOpen |-> FALSE, isActive |-> FALSE,
   history |-> <<>>, historyIndex |-> -1]

FileNode(path, name, parentPath, content, isNew) ==
  [path |-> normalizePath(path), name |-> name, type |-> "file",
   content |-> content, parent |-> normalizePath(parentPath),
   isDirty |-> isNew, isNew |-> isNew, isLocked |-> isNew,
   isOpen |-> FALSE, isActive |-> FALSE,
   history |-> <<content>>, historyIndex |-> 0]

Has(fm, p) == p \in DOMAIN fm

\* Map.set / Map.delete
MapSet(fm, p, node) == [q \in (DOMAIN fm) \cup {p} |-> IF q = p THEN node ELSE fm[q]]
MapDelete(fm, p) == [q \in (DOMAIN fm) \ {p} |-> fm[q]]

\* createFileNode: builds the node and stores it under its normalized path
createFileNode(fm, path, name, parentPath, content, isNew) ==
  MapSet(fm, normalizePath(path), FileNode(path, name, parentPath, content, isNew))

RECURSIVE ensureDirectory(_, _, _)
ensureDirectory(fm, path, name) ==
  LET normalizedPath == normalizePath(path)
      parentPath == getParentPath(normalizedPath)
      dirName == IF name = Empty THEN getFileName(normalizedPath) ELSE name
  IN IF normalizedPath = <<Slash>> THEN fm
     ELSE IF Has(fm, normalizedPath) THEN fm
     ELSE MapSet(ensureDirectory(fm, parentPath, Empty), normalizedPath,
                 DirectoryNode(normalizedPath, dirName, parentPath, FALSE))

\* ------------------------------ EnhancedFileSystemManager: tab management
\* The manager's state as a value: st.fm (fileMap), st.tabs (openTabs), st.act
\* (activeTab).
EState(fm, tabs, act) == [fm |-> fm, tabs |-> tabs, act |-> act]

\* `if (this.activeTab)`
Truthy(path) == path # Null /\ path # Empty

RECURSIVE openFile(_, _), activateTab(_, _)
openFile(st, path) ==
  LET normalizedPath == normalizePath(path)
      fm1 == IF Has(st.fm, normalizedPath) THEN st.fm
             ELSE createFileNode(st.fm, normalizedPath, getFileName(normalizedPath),
                                 getParentPath(normalizedPath), "", FALSE)
      fm2 == [fm1 EXCEPT ![normalizedPath].isOpen = TRUE]
      tabs1 == IF Includes(st.tabs, normalizedPath) THEN st.tabs
               ELSE Append(st.tabs, normalizedPath)
  IN activateTab(EState(fm2, tabs1, st.act), normalizedPath)

activateTab(st, path) ==
  LET normalizedPath == normalizePath(path)
      fm1 == IF Truthy(st.act) /\ Has(st.fm, st.act)
             THEN [st.fm EXCEPT ![st.act].isActive = FALSE]
             ELSE st.fm
  IN IF ~Includes(st.tabs, normalizedPath) THEN openFile(st, normalizedPath)
     ELSE IF Has(fm1, normalizedPath)
          THEN EState([fm1 EXCEPT ![normalizedPath].isActive = TRUE], st.tabs, normalizedPath)
          ELSE EState(fm1, st.tabs, st.act)

closeFile(st, path) ==
  LET normalizedPath == normalizePath(path)
      tabIndex == IndexOf(st.tabs, normalizedPath)
      fm1 == IF Has(st.fm, normalizedPath)
             THEN [st.fm EXCEPT ![normalizedPath].isOpen = FALSE,
                                ![normalizedPath].isActive = FALSE]
             ELSE st.fm
      tabs1 == Splice(st.tabs, tabIndex)
      newIndex == Min(tabIndex, Len(tabs1) - 1)
  IN IF tabIndex = -1 THEN st
     ELSE IF st.act = normalizedPath
          THEN IF Len(tabs1) > 0
               THEN activateTab(EState(fm1, tabs1, st.act), tabs1[newIndex + 1])
               ELSE EState(fm1, tabs1, Null)
          ELSE EState(fm1, tabs1, st.act)

\* ----------------------------------- EnhancedFileSystemManager: undo/redo
saveToHistory(node, content) ==
  LET h1 == IF node.historyIndex < Len(node.history) - 1
            THEN SubSeq(node.history, 1, node.historyIndex + 1)
            ELSE node.history
      h2 == Append(h1, content)
      h3 == IF Len(h2) > HistoryCap
            THEN SubSeq(h2, Len(h2) - HistoryCap + 1, Len(h2))
            ELSE h2
  IN [node EXCEPT !.history = h3, !.historyIndex = Len(h3) - 1]

\* canUndo with the boundary test off by one
canUndoAtZero(fm, path) ==
  LET normalizedPath == normalizePath(path)
  IN /\ Has(fm, normalizedPath)
     /\ fm[normalizedPath].historyIndex >= 0

canUndo(fm, path) ==
  LET normalizedPath == normalizePath(path)
  IN /\ Has(fm, normalizedPath)
     /\ fm[normalizedPath].historyIndex > 0

canRedo(fm, path) ==
  LET normalizedPath == normalizePath(path)
  IN /\ Has(fm, normalizedPath)
     /\ fm[normalizedPath].historyIndex < Len(fm[normalizedPath].history) - 1

undo(fm, path) ==
  LET normalizedPath == normalizePath(path)
      node == fm[normalizedPath]
      idx == node.historyIndex - 1
  IN IF ~Has(fm, normalizedPath) \/ ~canUndo(fm, normalizedPath) THEN fm
     ELSE [fm EXCEPT ![normalizedPath] =
             [node EXCEPT !.historyIndex = idx,
                          !.content = IF idx >= 0 THEN node.history[idx + 1] ELSE @]]

redo(fm, path) ==
  LET normalizedPath == normalizePath(path)
      node == fm[normalizedPath]
      idx == node.historyIndex + 1
  IN IF ~Has(fm, normalizedPath) \/ ~canRedo(fm, normalizedPath) THEN fm
     ELSE [fm EXCEPT ![normalizedPath] =
             [node EXCEPT !.historyIndex = idx,
                          !.content = IF idx < Len(node.history) THEN node.history[idx + 1] ELSE @]]

\* ------------------------------ EnhancedFileSystemManager: content, save
updateFileContent(fm, path, content) ==
  LET normalizedPath == normalizePath(path)
      node == fm[normalizedPath]
      n1 == saveToHistory(node, OrEmpty(node.content))
  IN IF ~Has(fm, normalizedPath) THEN fm
     ELSE IF node.type # "file" THEN fm
     ELSE IF node.isLocked THEN fm
     ELSE [fm EXCEPT ![normalizedPath] =
             [n1 EXCEPT !.content = content,
                        !.isDirty = (content # n1.history[1])]]

saveFile(fm, path) ==
  LET normalizedPath == normalizePath(path)
      node == fm[normalizedPath]
  IN IF ~Has(fm, normalizedPath) THEN fm
     ELSE IF node.type # "file" THEN fm
     ELSE [fm EXCEPT ![normalizedPath] =
             [node EXCEPT !.history = IF node.content # Undefined THEN <<node.content>> ELSE @,
                          !.historyIndex = IF node.content # Undefined THEN 0 ELSE @,
                          !.isDirty = FALSE, !.isNew = FALSE, !.isLocked = FALSE]]

revertFile(fm, path) ==
  LET normalizedPath == normalizePath(path)
      node == fm[normalizedPath]
  IN IF ~Has(fm, normalizedPath) THEN fm
     ELSE IF node.type # "file" \/ Len(node.history) = 0 THEN fm
     ELSE [fm EXCEPT ![normalizedPath] =
             [node EXCEPT !.content = node.history[1],
                          !.isDirty = FALSE,
                          !.historyIndex = 0]]

\* ------------------------------- EnhancedFileSystemManager: createFile
\* createFile throws when the path exists or the name is invalid
createFileThrowsOnConflictOnly(fm, parentPath, name) ==
  Has(fm, joinPath(normalizePath(parentPath), name))

createFileThrows(fm, parentPath, name) ==
  \/ Has(fm, joinPath(normalizePath(parentPath), name))
  \/ ~isValidFileName(name)

createFile(fm, parentPath, name, content) ==
  LET normalizedParentPath == normalizePath(parentPath)
      fullPath == joinPath(normalizedParentPath, name)
  IN createFileNode(ensureDirectory(fm, normalizedParentPath, Empty),
                    fullPath, name, normalizedParentPath, content, TRUE)

\* ------------------- EnhancedFileSystemManager: createDirectory, deleteNode
\* createDirectory throws when the path exists or the name is invalid
createDirectoryThrows(fm, parentPath, name) ==
  \/ Has(fm, joinPath(normalizePath(parentPath), name))
  \/ ~isValidFileName(name)

createDirectory(fm, parentPath, name) ==
  LET normalizedParentPath == normalizePath(parentPath)
      fullPath == joinPath(normalizedParentPath, name)
  IN MapSet(ensureDirectory(fm, normalizedParentPath, Empty), fullPath,
            DirectoryNode(fullPath, name, normalizedParentPath, TRUE))

\* deleteNode throws for the root
deleteNodeThrowsNever(path) == FALSE

deleteNodeThrows(path) == normalizePath(path) = <<Slash>>

\* The states deleteNode can end in.  The children of a directory are deleted
\* in the iteration order of the map, which the model does not keep: every
\* order is an outcome.  A nested call never throws, no child has the path '/'.
RECURSIVE deleteNode(_, _), deleteChildren(_, _)
deleteNode(st, path) ==
  LET normalizedPath == normalizePath(path)
      node == st.fm[normalizedPath]
      st1 == IF node.isOpen THEN closeFile(st, normalizedPath) ELSE st
      children == IF node.type = "directory"
                  THEN {k \in DOMAIN st1.fm : st1.fm[k].parent = normalizedPath}
                  ELSE {}
  IN IF deleteNodeThrows(path) THEN {st}
     ELSE IF ~Has(st.fm, normalizedPath) THEN {st}
     ELSE {EState(MapDelete(st2.fm, normalizedPath), st2.tabs, st2.act) :
             st2 \in deleteChildren(st1, children)}

\* for (const child of children) this.deleteNode(child.path)
deleteChildren(st, children) ==
  IF children = {} THEN {st}
  ELSE UNION {UNION {deleteChildren(s1, children \ {k}) : s1 \in deleteNode(st, k)} :
                k \in children}

\* ------------------------------- EnhancedFileSystemManager: renameNode
\* `node.parent || '/'`
OrSlash(parent) == IF parent = Empty THEN <<Slash>> ELSE parent

renameNodeThrows(fm, path, newName) ==
  LET normalizedPath == normalizePath(path)
  IN \/ ~Has(fm, normalizedPath)
     \/ ~isValidFileName(newName)
     \/ Has(fm, joinPath(OrSlash(fm[normalizedPath].parent), newName))

\* Every node is stored under its own path, so deleting node.path deletes the
\* entry the loop is at; a moved node has the new parent and is not met again.
RECURSIVE updateChildrenPaths(_, _, _)
updateChildrenPaths(fm, oldParentPath, newParentPath) ==
  LET kids == {k \in DOMAIN fm : fm[k].parent = oldParentPath}
      oldPath == CHOOSE k \in kids : TRUE
      node == fm[oldPath]
      newPath == joinPath(newParentPath, node.name)
      fm1 == MapSet(MapDelete(fm, oldPath), newPath,
                    [node EXCEPT !.path = newPath, !.parent = newParentPath])
      fm2 == IF node.type = "directory"
             THEN updateChildrenPaths(fm1, oldPath, newPath)
             ELSE fm1
  IN IF kids = {} THEN fm
     ELSE updateChildrenPaths(fm2, oldParentPath, newParentPath)

renameNode(st, path, newName) ==
  LET normalizedPath == normalizePath(path)
      node == st.fm[normalizedPath]
      newPath == joinPath(OrSlash(node.parent), newName)
      fm1 == MapSet(MapDelete(st.fm, normalizedPath), newPath,
                    [node EXCEPT !.path = newPath, !.name = newName])
      fm2 == IF node.type = "directory"
             THEN updateChildrenPaths(fm1, normalizedPath, newPath)
             ELSE fm1
      tabIndex == IndexOf(st.tabs, normalizedPath)
      tabs1 == IF tabIndex # -1
               THEN [st.tabs EXCEPT ![tabIndex + 1] = newPath]
               ELSE st.tabs
  IN EState(fm2, tabs1, IF st.act = normalizedPath THEN newPath ELSE st.act)

\* ---------------------- EnhancedFileSystemManager: external synchronization
\* An ExternalFileNode: name, type, content (Undefined when absent) and
\* children (the empty sequence when absent: both are skipped by the code).
ExtFile(name, content) ==
  [name |-> name, type |-> "file", content |-> content, children |-> <<>>]
ExtDir(name, children) ==
  [name |-> name, type |-> "directory", content |-> Undefined, children |-> children]

clearNonUserFiles(fm) ==
  LET toRemove == {path \in DOMAIN fm :
                     path # <<Slash>> /\ ~fm[path].isNew /\ ~fm[path].isLocked}
  IN [q \in (DOMAIN fm) \ toRemove |-> fm[q]]

RECURSIVE processExternalNode(_, _, _), processChildren(_, _, _, _)
processExternalNode(fm, external, parentPath) ==
  LET fullPath == IF parentPath = <<Slash>> THEN <<Slash>> \o external.name
                  ELSE parentPath \o <<Slash>> \o external.name
      exists == Has(fm, fullPath)
      existing == fm[fullPath]
  IN IF exists /\ (existing.isNew \/ existing.isLocked) THEN fm
     ELSE IF external.type = "file"
          THEN IF ~exists
               THEN createFileNode(fm, fullPath, external.name, parentPath,
                                   OrEmpty(external.content), FALSE)
               ELSE IF external.content # Undefined /\ existing.content # external.content
                    THEN [fm EXCEPT ![fullPath].content = external.content,
                                    ![fullPath].isDirty = FALSE]
                    ELSE fm
          ELSE processChildren(ensureDirectory(fm, fullPath, external.name),
                               external.children, fullPath, 1)

\* for (const child of children) this.processExternalNode(child, parentPath)
processChildren(fm, children, parentPath, i) ==
  IF i > Len(children) THEN fm
  ELSE processChildren(processExternalNode(fm, children[i], parentPath),
                       children, parentPath, i + 1)

mergeExternalStructure(fm, externalStructure) ==
  processChildren(clearNonUserFiles(fm), externalStructure.children, <<Slash>>, 1)

\* One entry of updateFileContentMap's loop
updateFileContentEntry(fm, filePath, content) ==
  LET normalizedPath == normalizePath(filePath)
      node == fm[normalizedPath]
      n1 == saveToHistory(node, OrEmpty(node.content))
  IN IF Has(fm, normalizedPath) /\ node.type = "file" /\ node.content # content
     THEN [fm EXCEPT ![normalizedPath] =
             [n1 EXCEPT !.content = content,
                        !.isDirty = IF ~node.isNew /\ ~node.isLocked THEN FALSE ELSE @]]
     ELSE fm

\* contentMap is the sequence of the map's [path, content] entries in
\* iteration order
RECURSIVE updateFileContentMapFrom(_, _, _)
updateFileContentMapFrom(fm, contentMap, i) ==
  IF i > Len(contentMap) THEN fm
  ELSE updateFileContentMapFrom(
         updateFileContentEntry(fm, contentMap[i].path, contentMap[i].content),
         contentMap, i + 1)

updateFileContentMap(fm, contentMap) == updateFileContentMapFrom(fm, contentMap, 1)

\* --------------------------------------------------------- the observers
\* last: the operation just called, with its path and content arguments.
\*   run    counts consecutive undo calls on one path (up to HistoryCap + 1);
\*   chain  is "update" for a save that directly follows an update of the same
\*          path, "update;save" for a revert that directly follows such a
\*          save, and content then still is the content handed to the update;
\*   result is the value the call returned, where a claim speaks of it.
\*   arg    is the name argument of createFile, createDirectory and renameNode;
\*   snapshot  the children of the structure handed to mergeExternalStructure.
Last(op, path, content) ==
  [op |-> op, path |-> path, content |-> content, run |-> 1, chain |-> "", result |-> "",
   arg |-> Empty, snapshot |-> <<>>]

LastNamed(op, path, name) == [Last(op, path, "") EXCEPT !.arg = name]

LastUndo(path) ==
  [Last("undo", path, "") EXCEPT
     !.run = IF last.op = "undo" /\ last.path = path
             THEN Min(last.run + 1, HistoryCap + 1) ELSE 1]

LastSave(op, updateOp, path, result) ==
  IF last.op = updateOp /\ last.path = path
  THEN [Last(op, path, last.content) EXCEPT !.chain = "update", !.result = result]
  ELSE [Last(op, path, "") EXCEPT !.result = result]

LastRevert(op, saveOp, path) ==
  IF last.op = saveOp /\ last.path = path /\ last.chain = "update"
  THEN [Last(op, path, last.content) EXCEPT !.chain = "update;save"]
  ELSE Last(op, path, "")

FilePaths(fm) == {p \in DOMAIN fm : fm[p].type = "file"}

\* saved after a call: kept is the part of the old map the call did not
\* remove, savedNow the paths the call saved.  A file that the call created
\* starts with its content, a saved file takes its content, any other keeps
\* its entry.
TrackSaved(kept, fmNew, savedNow) ==
  [p \in FilePaths(fmNew) |->
     IF p \in savedNow THEN fmNew[p].content
     ELSE IF p \in DOMAIN kept /\ p \in DOMAIN saved THEN saved[p]
     ELSE fmNew[p].content]

Count(seq, x) == Cardinality({i \in 1..Len(seq) : seq[i] = x})

\* pushes after a call: pushed lists the paths saveToHistory was called on
TrackPushes(kept, fmNew, savedNow, pushed) ==
  [p \in FilePaths(fmNew) |->
     LET before == IF p \in savedNow THEN 0
                   ELSE IF p \in DOMAIN kept /\ p \in DOMAIN pushes THEN pushes[p]
                   ELSE 0
     IN Min(before + Count(pushed, p), HistoryCap + 1)]

\* the paths updateFileContentMap calls saveToHistory on, in order
RECURSIVE PushedByMap(_, _, _)
PushedByMap(fm, contentMap, i) ==
  IF i > Len(contentMap) THEN <<>>
  ELSE LET np == normalizePath(contentMap[i].path)
           fm1 == updateFileContentEntry(fm, contentMap[i].path, contentMap[i].content)
       IN (IF fm1 # fm THEN <<np>> ELSE <<>>) \o PushedByMap(fm1, contentMap, i + 1)

\* ------------------------------------ EnhancedFileSystemManager: actions
Cur == EState(fileMap, openTabs, activeTab)

\* the effect of one call on the manager's variables and on the observers
ECall(st, didThrow, kept, savedNow, pushed, newLast) ==
  /\ fileMap' = st.fm
  /\ openTabs' = st.tabs
  /\ activeTab' = st.act
  /\ threw' = didThrow
  /\ saved' = TrackSaved(kept, st.fm, savedNow)
  /\ pushes' = TrackPushes(kept, st.fm, savedNow, pushed)
  /\ last' = newLast
  /\ UNCHANGED <<fVars, nf, nVars, cVars>>

EOpenFile(path) ==
  ECall(openFile(Cur, path), FALSE, fileMap, {}, <<>>,
        Last("openFile", normalizePath(path), ""))

EActivateTab(path) ==
  ECall(activateTab(Cur, path), FALSE, fileMap, {}, <<>>,
        Last("activateTab", normalizePath(path), ""))

ECloseFile(path) ==
  ECall(closeFile(Cur, path), FALSE, fileMap, {}, <<>>,
        Last("closeFile", normalizePath(path), ""))

ECreateFile(parentPath, name, content) ==
  LET fullPath == joinPath(normalizePath(parentPath), name)
  IN IF createFileThrows(fileMap, parentPath, name)
     THEN ECall(Cur, TRUE, fileMap, {}, <<>>,
                [Last("createFile", fullPath, content) EXCEPT !.arg = name])
     ELSE ECall(EState(createFile(fileMap, parentPath, name, content), openTabs, activeTab),
                FALSE, fileMap, {}, <<>>,
                [Last("createFile", fullPath, content) EXCEPT !.arg = name])

ECreateDirectory(parentPath, name) ==
  LET fullPath == joinPath(normalizePath(parentPath), name)
  IN IF createDirectoryThrows(fileMap, parentPath, name)
     THEN ECall(Cur, TRUE, fileMap, {}, <<>>, LastNamed("createDirectory", fullPath, name))
     ELSE ECall(EState(createDirectory(fileMap, parentPath, name), openTabs, activeTab),
                FALSE, fileMap, {}, <<>>, LastNamed("createDirectory", fullPath, name))

EDeleteNode(path) ==
  \E st \in deleteNode(Cur, path) :
    ECall(st, deleteNodeThrows(path), fileMap, {}, <<>>,
          Last("deleteNode", normalizePath(path), ""))

\* the records a call left as they were
SameRecords(fmOld, fmNew) ==
  [k \in {q \in DOMAIN fmOld \cap DOMAIN fmNew : fmOld[q] = fmNew[q]} |-> fmOld[k]]

ERenameNode(path, newName) ==
  IF renameNodeThrows(fileMap, path, newName)
  THEN ECall(Cur, TRUE, fileMap, {}, <<>>,
             LastNamed("renameNode", normalizePath(path), newName))
  ELSE LET st == renameNode(Cur, path, newName)
       IN ECall(st, FALSE, SameRecords(fileMap, st.fm), {}, <<>>,
                LastNamed("renameNode", normalizePath(path), newName))

EUpdateFileContent(path, content) ==
  LET fm1 == updateFileContent(fileMap, path, content)
      np == normalizePath(path)
      pushed == IF Has(fileMap, np) /\ fileMap[np].type = "file" /\ ~fileMap[np].isLocked
                THEN <<np>> ELSE <<>>
  IN ECall(EState(fm1, openTabs, activeTab), FALSE, fileMap, {}, pushed,
           Last("updateFileContent", np, content))

ESaveFile(path) ==
  LET np == normalizePath(path)
  IN ECall(EState(saveFile(fileMap, path), openTabs, activeTab), FALSE, fileMap,
           {np} \cap FilePaths(fileMap), <<>>,
           LastSave("saveFile", "updateFileContent", np, ""))

ERevertFile(path) ==
  ECall(EState(revertFile(fileMap, path), openTabs, activeTab), FALSE, fileMap, {}, <<>>,
        LastRevert("revertFile", "saveFile", normalizePath(path)))

EUndo(path) ==
  ECall(EState(undo(fileMap, path), openTabs, activeTab), FALSE, fileMap, {}, <<>>,
        LastUndo(normalizePath(path)))

ERedo(path) ==
  ECall(EState(redo(fileMap, path), openTabs, activeTab), FALSE, fileMap, {}, <<>>,
        Last("redo", normalizePath(path), ""))

EMergeExternalStructure(externalStructure) ==
  ECall(EState(mergeExternalStructure(fileMap, externalStructure), openTabs, activeTab),
        FALSE, clearNonUserFiles(fileMap), {}, <<>>,
        [Last("mergeExternalStructure", Empty, "") EXCEPT
           !.snapshot = externalStructure.children])

\* result "accepted": the first entry changed the content of a record that is
\* neither new nor locked
EUpdateFileContentMap(contentMap) ==
  LET np == normalizePath(contentMap[1].path)
      accepted == /\ Has(fileMap, np) /\ fileMap[np].type = "file"
                  /\ ~fileMap[np].isNew /\ ~fileMap[np].isLocked
                  /\ fileMap[np].content # contentMap[1].content
  IN ECall(EState(updateFileContentMap(fileMap, contentMap), openTabs, activeTab),
           FALSE, fileMap, {}, PushedByMap(fileMap, contentMap, 1),
           [Last("updateFileContentMap", np, contentMap[1].content) EXCEPT
              !.result = IF accepted THEN "accepted" ELSE ""])

\* ------------------------------------------------------ normalizeFilename
\* String.prototype.trim on the token " "
RECURSIVE TrimStart(_), TrimEnd(_)
TrimStart(s) == IF Len(s) > 0 /\ s[1] = " " THEN TrimStart(Tail(s)) ELSE s
TrimEnd(s) == IF Len(s) > 0 /\ s[Len(s)] = " " THEN TrimEnd(SubSeq(s, 1, Len(s) - 1)) ELSE s
Trim(s) == TrimEnd(TrimStart(s))

\* String.prototype.toLowerCase: "WS" is "workspace" in another letter case
ToLowerCase(s) == [i \in 1..Len(s) |-> IF s[i] = "WS" THEN "ws" ELSE s[i]]

\* 'workspace/' and 'workspace\\', in the order of the code's array; each is
\* ten characters long, which substring(prefix.length) removes: here the two
\* tokens of the prefix
workspacePrefixes == << <<"ws", Slash>>, <<"ws", "\\">> >>

\* lib/utils normalizeFilename
normalizeFilename(filename) ==
  LET n0 == Trim(filename)
      n1 == IF StartsWith(n0, <<Slash>>) THEN Substring(n0, 1) ELSE n0
      n2 == IF StartsWith(n1, <<".", Slash>>) THEN Substring(n1, 2) ELSE n1
      lowerNormalized == ToLowerCase(n2)
      hits == {i \in 1..Len(workspacePrefixes) :
                 StartsWith(lowerNormalized, ToLowerCase(workspacePrefixes[i]))}
      first == CHOOSE i \in hits : \A j \in hits : i <= j
  IN IF filename = Empty THEN Empty
     ELSE IF hits = {} THEN n2
     ELSE Substring(n2, Len(workspacePrefixes[first]))

\* the older normalizeFilename: strips one leading slash only
normalizeFilenameLegacy(filename) ==
  IF filename = Empty THEN Empty
  ELSE IF StartsWith(filename, <<Slash>>) THEN Substring(filename, 1) ELSE filename

\* ------------------------------------------------------ FileSystemManager
\* A FileState: filename, content, originalContent, isDirty and isEditable
\* ("true", "false" or "undefined").  A metaData argument is "none" when the
\* caller passes none, else the value of its isEditable property.
FState(fs, tabs, act) == [files |-> fs, tabs |-> tabs, act |-> act]

\* filename.endsWith('.jsonsearch') || filename === 'Web.html'; the token
\* "js" is the suffix '.jsonsearch', the token "W" the name 'Web.html'
isSpecialFile(filename) ==
  \/ (Len(filename) > 0 /\ filename[Len(filename)] = "js")
  \/ filename = <<"W">>

fsOpenFile(st, rawFilename, content, metaData) ==
  LET filename == normalizeFilename(rawFilename)
      file == [filename |-> filename, content |-> content, originalContent |-> content,
               isDirty |-> FALSE,
               isEditable |-> IF metaData \in {"none", "undefined"} THEN "true" ELSE metaData]
      existingFile == st.files[filename]
  IN IF ~Has(st.files, filename)
     THEN FState(MapSet(st.files, filename, file),
                 IF ~isSpecialFile(filename) /\ ~Includes(st.tabs, filename)
                 THEN Append(st.tabs, filename) ELSE st.tabs,
                 st.act)
     ELSE FState([st.files EXCEPT ![filename] =
                    [existingFile EXCEPT !.content = content,
                                         !.isEditable = IF metaData = "none" THEN @ ELSE metaData]],
                 st.tabs, st.act)

fsCloseFile(st, rawFilename) ==
  LET filename == normalizeFilename(rawFilename)
      index == IndexOf(st.tabs, filename)
      tabs1 == Splice(st.tabs, index)
      newIndex == Min(index, Len(tabs1) - 1)
  IN IF index = -1 THEN st
     ELSE FState(st.files, tabs1,
                 IF st.act = filename
                 THEN IF Len(tabs1) > 0 THEN tabs1[newIndex + 1] ELSE Null
                 ELSE st.act)

fsSetActiveTab(st, rawFilename) ==
  LET filename == normalizeFilename(rawFilename)
  IN IF Has(st.files, filename) THEN FState(st.files, st.tabs, filename) ELSE st

fsUpdateFileContent(st, rawFilename, content) ==
  LET filename == normalizeFilename(rawFilename)
      file == st.files[filename]
  IN IF Has(st.files, filename)
     THEN FState([st.files EXCEPT ![filename] =
                    [file EXCEPT !.content = content,
                                 !.isDirty = (content # file.originalContent)]],
                 st.tabs, st.act)
     ELSE st

fsSaveFile(st, rawFilename) ==
  LET filename == normalizeFilename(rawFilename)
      file == st.files[filename]
  IN IF Has(st.files, filename)
     THEN FState([st.files EXCEPT ![filename] =
                    [file EXCEPT !.originalContent = file.content, !.isDirty = FALSE]],
                 st.tabs, st.act)
     ELSE st

\* the value saveFile returns: the saved content, or null
fsSaveFileResult(st, rawFilename) ==
  LET filename == normalizeFilename(rawFilename)
  IN IF Has(st.files, filename) THEN st.files[filename].content ELSE "null"

\* revertFile returns true iff the file exists and is editable
fsRevertFileResult(st, rawFilename) ==
  LET filename == normalizeFilename(rawFilename)
  IN Has(st.files, filename) /\ st.files[filename].isEditable = "true"

fsRevertFile(st, rawFilename) ==
  LET filename == normalizeFilename(rawFilename)
      file == st.files[filename]
  IN IF fsRevertFileResult(st, rawFilename)
     THEN FState([st.files EXCEPT ![filename] =
                    [file EXCEPT !.content = file.originalContent, !.isDirty = FALSE]],
                 st.tabs, st.act)
     ELSE st

\* ------------------------------ FileSystemManager: the change notifier
\* The notifier's state as a value: n.listeners and n.silentMode.  notify and
\* forceNotify are modelled by the set of listeners they invoke.
Notifier(ls, silent) == [listeners |-> ls, silentMode |-> silent]

notify(n) == IF ~n.silentMode THEN n.listeners ELSE {}

forceNotifyUnlessSilent(n) == IF ~n.silentMode THEN n.listeners ELSE {}

forceNotify(n) == n.listeners

\* --------------------- FileSystemManager: the virtual file structure
\* A FileStructureNode: name, type and children; hasChildren is FALSE where
\* the children property is undefined (a file node as it is created).
VNode(name, type, hasChildren, children) ==
  [name |-> name, type |-> type, hasChildren |-> hasChildren, children |-> children]

VRoot == VNode(<<Slash>>, "directory", TRUE, <<>>)

\* path.split('/').filter(p => p)
RECURSIVE SplitParts(_)
SplitParts(path) ==
  LET slashes == {i \in 1..Len(path) : path[i] = Slash}
      first == CHOOSE i \in slashes : \A j \in slashes : i <= j
  IN IF slashes = {}
     THEN IF path = Empty THEN <<>> ELSE <<path>>
     ELSE (IF first = 1 THEN <<>> ELSE <<SubSeq(path, 1, first - 1)>>)
          \o SplitParts(SubSeq(path, first + 1, Len(path)))

\* part.endsWith('.jsonsearch') || part === 'Web.html'
isSpecialPart(part) ==
  \/ (Len(part) > 0 /\ part[Len(part)] = "js")
  \/ part = <<"W">>

\* children?.find(child => child.name === part): its index, 0 when undefined
FindChild(node, part) ==
  LET idx == {i \in 1..Len(node.children) : node.children[i].name = part}
  IN IF idx = {} THEN 0 ELSE CHOOSE i \in idx : \A j \in idx : i <= j

\* the order of String.prototype.localeCompare on the tokens of the model
CollationOrder == <<".", "a", "b", "d", "js", "W">>
Rank(token) == CHOOSE i \in 1..Len(CollationOrder) : CollationOrder[i] = token

localeCompare(a, b) ==
  LET n == Min(Len(a), Len(b))
      diffs == {i \in 1..n : a[i] # b[i]}
      first == CHOOSE i \in diffs : \A j \in diffs : i <= j
  IN IF diffs = {}
     THEN IF Len(a) < Len(b) THEN -1 ELSE IF Len(a) > Len(b) THEN 1 ELSE 0
     ELSE IF Rank(a[first]) < Rank(b[first]) THEN -1 ELSE 1

\* Array.prototype.sort, which is stable: an element moves behind the
\* elements that compare lower and the equal ones that stood before it
ArraySort(seq, Compare(_, _)) ==
  LET before(i) == {j \in 1..Len(seq) :
                      \/ Compare(seq[j], seq[i]) < 0
                      \/ (Compare(seq[j], seq[i]) = 0 /\ j < i)}
  IN [k \in 1..Len(seq) |->
        seq[CHOOSE i \in 1..Len(seq) : Cardinality(before(i)) = k - 1]]

\* the comparator of sortChildren
compareByNameOnly(a, b) == localeCompare(a.name, b.name)

compareChildren(a, b) ==
  IF a.type = "directory" /\ b.type = "file" THEN -1
  ELSE IF a.type = "file" /\ b.type = "directory" THEN 1
  ELSE localeCompare(a.name, b.name)

RECURSIVE sortChildren(_)
sortChildren(node) ==
  IF node.hasChildren
  THEN LET sorted == ArraySort(node.children, compareChildren)
       IN [node EXCEPT !.children = [i \in 1..Len(sorted) |-> sortChildren(sorted[i])]]
  ELSE node

\* insertNode of mergeExternalFileStructure from part i on; a push into a node
\* without a children array is lost
PushIfChildren(node, child) ==
  IF node.hasChildren THEN [node EXCEPT !.children = Append(@, child)] ELSE node

RECURSIVE mergeInsertNode(_, _, _)
mergeInsertNode(node, parts, i) ==
  LET part == parts[i]
      isLastPart == i = Len(parts)
      k == FindChild(node, part)
  IN IF i > Len(parts) THEN node
     ELSE IF isSpecialPart(part) THEN node
     ELSE IF k # 0
          THEN [node EXCEPT !.children[k] = mergeInsertNode(@, parts, i + 1)]
     ELSE IF isLastPart
          THEN PushIfChildren(node, VNode(part, "file", FALSE, <<>>))
     ELSE PushIfChildren(node,
            mergeInsertNode(VNode(part, "directory", TRUE, <<>>), parts, i + 1))

RECURSIVE mergeInsertAll(_, _, _)
mergeInsertAll(root, externalFilePaths, i) ==
  IF i > Len(externalFilePaths) THEN root
  ELSE mergeInsertAll(mergeInsertNode(root, SplitParts(externalFilePaths[i]), 1),
                      externalFilePaths, i + 1)

mergeExternalFileStructure(externalFilePaths) ==
  sortChildren(mergeInsertAll(VRoot, externalFilePaths, 1))

\* insertNode of addFileToVirtualStructure: a missing children array is created
PushChild(node, child) ==
  [node EXCEPT !.hasChildren = TRUE, !.children = Append(@, child)]

RECURSIVE addInsertNode(_, _, _, _)
addInsertNode(node, parts, i, isDirectory) ==
  LET part == parts[i]
      isLastPart == i = Len(parts)
      k == FindChild(node, part)
  IN IF i > Len(parts) THEN node
     ELSE IF isSpecialPart(part) THEN node
     ELSE IF k # 0
          THEN [node EXCEPT !.children[k] = addInsertNode(@, parts, i + 1, isDirectory)]
     ELSE IF isLastPart
          THEN PushChild(node, IF isDirectory
                               THEN VNode(part, "directory", TRUE, <<>>)
                               ELSE VNode(part, "file", FALSE, <<>>))
     ELSE PushChild(node,
            addInsertNode(VNode(part, "directory", TRUE, <<>>), parts, i + 1, isDirectory))

addFileToVirtualStructure(structure, path, isDirectory) ==
  sortChildren(addInsertNode(structure, SplitParts(path), 1, isDirectory))

\* ------------------------- EnhancedFileSystemManager: getFileTree
\* the comparator of buildTreeStructure
compareTree(a, b) ==
  IF a.type # b.type
  THEN IF a.type = "directory" THEN -1 ELSE 1
  ELSE localeCompare(a.name, b.name)

\* Array.from of a set of map keys, in some iteration order
RECURSIVE ArrayFrom(_)
ArrayFrom(S) ==
  IF S = {} THEN <<>>
  ELSE LET x == CHOOSE y \in S : TRUE IN <<x>> \o ArrayFrom(S \ {x})

\* The tree is the node with its children property; the other properties of
\* the node are copied as they are and are left out here.
RECURSIVE buildTreeStructure(_, _)
buildTreeStructure(fm, path) ==
  LET node == fm[path]
      keys == ArrayFrom({k \in DOMAIN fm : fm[k].parent = path})
      children == ArraySort([i \in 1..Len(keys) |-> fm[keys[i]]], compareTree)
  IN IF node.type = "directory"
     THEN VNode(node.name, node.type, TRUE,
                [i \in 1..Len(children) |-> buildTreeStructure(fm, children[i].path)])
     ELSE VNode(node.name, node.type, FALSE, <<>>)

\* getFileTree throws when the map has no node at '/'
getFileTreeThrows(fm) == ~Has(fm, <<Slash>>)

getFileTree(fm) == buildTreeStructure(fm, <<Slash>>)

\* --------------------------------------------- FileSystemManager: actions
FCur == FState(files, fsOpenTabs, fsActiveTab)

\* The effect of one call on the manager's variables and on the observers.
\* Op is the call as a function of the manager's state; how says which
\* notification the call ends with: "notify", "force" or "none".
Tell(how) ==
  IF how = "notify" THEN notify(Notifier(listeners, silentMode))
  ELSE IF how = "force" THEN forceNotify(Notifier(listeners, silentMode))
  ELSE {}

Observe(how) ==
  /\ invoked' = Tell(how)
  /\ stale' = IF Tell(how) # {} THEN FALSE
              ELSE IF how = "notify" /\ listeners # {} THEN TRUE
              ELSE stale

FApply(Op(_), how, newLast) ==
  /\ files' = Op(FCur).files
  /\ fsOpenTabs' = Op(FCur).tabs
  /\ fsActiveTab' = Op(FCur).act
  /\ twin' = [twin EXCEPT !.st = Op(twin.st)]
  /\ Observe(how)
  /\ last' = newLast
  /\ UNCHANGED <<eVars, nf, vfs, listeners>>

FCall(Op(_), how, newLast) ==
  /\ FApply(Op, how, newLast)
  /\ UNCHANGED <<silentMode, cVars>>

FOpenFile(rawFilename, content, metaData) ==
  FCall(LAMBDA st : fsOpenFile(st, rawFilename, content, metaData), "notify",
        Last("fsOpenFile", normalizeFilename(rawFilename), content))

FCloseFile(rawFilename) ==
  FCall(LAMBDA st : fsCloseFile(st, rawFilename),
        IF Includes(fsOpenTabs, normalizeFilename(rawFilename)) THEN "notify" ELSE "none",
        Last("fsCloseFile", normalizeFilename(rawFilename), ""))

FSetActiveTab(rawFilename) ==
  FCall(LAMBDA st : fsSetActiveTab(st, rawFilename),
        IF Has(files, normalizeFilename(rawFilename)) THEN "notify" ELSE "none",
        Last("fsSetActiveTab", normalizeFilename(rawFilename), ""))

\* also the body of the ref method ComputerView exposes for live file updates
FUpdateFileContent(rawFilename, content) ==
  FCall(LAMBDA st : fsUpdateFileContent(st, rawFilename, content),
        IF Has(files, normalizeFilename(rawFilename)) THEN "notify" ELSE "none",
        Last("fsUpdateFileContent", normalizeFilename(rawFilename), content))

FSaveFile(rawFilename) ==
  FCall(LAMBDA st : fsSaveFile(st, rawFilename),
        IF Has(files, normalizeFilename(rawFilename)) THEN "notify" ELSE "none",
        LastSave("fsSaveFile", "fsUpdateFileContent", normalizeFilename(rawFilename),
                 fsSaveFileResult(FCur, rawFilename)))

FRevertFile(rawFilename) ==
  FCall(LAMBDA st : fsRevertFile(st, rawFilename),
        IF fsRevertFileResult(FCur, rawFilename) THEN "force" ELSE "none",
        [LastRevert("fsRevertFile", "fsSaveFile", normalizeFilename(rawFilename)) EXCEPT
           !.result = IF fsRevertFileResult(FCur, rawFilename) THEN "true" ELSE "false"])

\* The structure operations: Op is the call as a function of the structure.
VCall(Op(_), newLast) ==
  /\ vfs' = Op(vfs)
  /\ twin' = [twin EXCEPT !.vfs = Op(twin.vfs)]
  /\ Observe("notify")
  /\ last' = newLast
  /\ UNCHANGED <<eVars, fVars, nf, silentMode, listeners, cVars>>

FMergeExternalFileStructure(externalFilePaths) ==
  VCall(LAMBDA structure : mergeExternalFileStructure(externalFilePaths),
        Last("mergeExternalFileStructure", Empty, ""))

FAddFileToVirtualStructure(path, isDirectory) ==
  VCall(LAMBDA structure : addFileToVirtualStructure(structure, path, isDirectory),
        Last("addFileToVirtualStructure", path, ""))

\* setSilentMode, forceNotify, subscribe and the function subscribe returns
NCall(ls, silent, how, newLast) ==
  /\ listeners' = ls
  /\ silentMode' = silent
  /\ Observe(how)
  /\ last' = newLast
  /\ UNCHANGED <<eVars, fVars, nf, vfs, twin, cVars>>

FSetSilentMode(silent) ==
  NCall(listeners, silent, "none", Last("setSilentMode", Empty, ""))

FForceNotify == NCall(listeners, silentMode, "force", Last("forceNotify", Empty, ""))

FSubscribe(listener) ==
  NCall(listeners \cup {listener}, silentMode, "none", Last("subscribe", Empty, ""))

FUnsubscribe(listener) ==
  NCall(listeners \ {listener}, silentMode, "none", Last("unsubscribe", Empty, ""))

\* -------------------------------------------------------- ComputerView
\* getFile: undefined (Null) for an empty name, else the key of the record
getFileKey(rawFilename) ==
  IF rawFilename = Empty THEN Null ELSE normalizeFilename(rawFilename)

\* handleFileContentChange up to its timers: silent mode is set and the
\* record is written directly, without a call of the manager
fileContentChangeReturnsEarly(st, rawFilename, content) ==
  LET key == getFileKey(normalizeFilename(rawFilename))
  IN Has(st.files, key) /\ st.files[key].content = content

fileContentChange(st, rawFilename, content) ==
  LET key == getFileKey(normalizeFilename(rawFilename))
      file == st.files[key]
  IN IF fileContentChangeReturnsEarly(st, rawFilename, content) THEN st
     ELSE IF Has(st.files, key)
          THEN FState([st.files EXCEPT ![key] =
                         [file EXCEPT !.content = content,
                                      !.isDirty = (content # file.originalContent)]],
                      st.tabs, st.act)
          ELSE st

\* a keystroke in the editor
HandleFileContentChange(rawFilename, content) ==
  LET early == fileContentChangeReturnsEarly(FCur, rawFilename, content)
      found == Has(files, getFileKey(normalizeFilename(rawFilename)))
  IN /\ FApply(LAMBDA st : fileContentChange(st, rawFilename, content), "none",
               Last("handleFileContentChange", normalizeFilename(rawFilename), content))
     /\ silentMode' = IF early THEN silentMode ELSE TRUE
     /\ timers' = IF ~early /\ found THEN [timers EXCEPT !.notify = TRUE] ELSE timers
     /\ UNCHANGED saving

\* the 300 ms timer: updateSaveButtonState, which starts the 100 ms timer.
\* A pending 100 ms timer is older and fires first.
TimerUpdateSaveButton ==
  /\ timers.notify
  /\ ~timers.restore
  /\ timers' = [notify |-> FALSE, restore |-> TRUE]
  /\ last' = Last("updateSaveButtonState", Empty, "")
  /\ UNCHANGED <<eVars, fVars, nf, nVars, saving>>

\* the 100 ms timer: fileSystem.setSilentMode(false)
TimerRestoreNotify ==
  /\ timers.restore
  /\ timers' = [timers EXCEPT !.restore = FALSE]
  /\ silentMode' = FALSE
  /\ last' = Last("setSilentMode", Empty, "")
  /\ UNCHANGED <<eVars, fVars, nf, vfs, listeners, invoked, stale, twin, saving>>

\* handleSave up to its request: the key of the file it saves, Null when it
\* returns at once.  An empty name means the active file.
handleSaveTarget(st, rawFilename, hasTaskId) ==
  LET filename == IF rawFilename = Empty THEN Empty ELSE normalizeFilename(rawFilename)
      key == IF filename # Empty THEN getFileKey(filename)
             ELSE IF Truthy(st.act) THEN st.act ELSE Null
  IN IF /\ Has(st.files, key)
        /\ st.files[key].isDirty
        /\ hasTaskId
        /\ st.files[key].isEditable = "true"
     THEN key ELSE Null

\* handleSave after its request: the store is written on success only
handleSaveOptimistic(st, filename, outcome) == fsSaveFile(st, filename)

handleSaveSettle(st, filename, outcome) ==
  IF outcome = "success" THEN fsSaveFile(st, filename) ELSE st

HandleSave(rawFilename, hasTaskId) ==
  LET target == handleSaveTarget(FCur, rawFilename, hasTaskId)
  IN /\ Len(saving) < MaxInFlight
     /\ saving' = IF target # Null
                  THEN Append(saving, [filename |-> target,
                                       content |-> files[target].content])
                  ELSE saving
     /\ last' = [Last("handleSave", target, "") EXCEPT
                   !.result = IF target # Null THEN "sent" ELSE "returned"]
     /\ UNCHANGED <<eVars, fVars, nf, nVars, timers>>

\* the request of the i-th pending handleSave succeeds, reports
\* success == false, or throws
HandleSaveSettled(i, outcome) ==
  /\ i \in 1..Len(saving)
  /\ FApply(LAMBDA st : handleSaveSettle(st, saving[i].filename, outcome),
            IF outcome = "success" /\ Has(files, saving[i].filename)
            THEN "notify" ELSE "none",
            [Last("handleSaveSettled", saving[i].filename, saving[i].content) EXCEPT
               !.result = outcome])
  /\ saving' = Splice(saving, i - 1)
  /\ UNCHANGED <<silentMode, timers>>

\* ------------------------------------------- normalizeFilename under test
NfIdle == [fn |-> "utils", input |-> Empty, stage |-> 0, once |-> Empty, twice |-> Empty]

NfApply(fn, s) == IF fn = "utils" THEN normalizeFilename(s) ELSE normalizeFilenameLegacy(s)

NormalizeOnce ==
  /\ nf.stage = 0
  /\ nf' = [nf EXCEPT !.stage = 1, !.once = NfApply(nf.fn, nf.input)]
  /\ last' = Last("normalizeFilename", nf.input, "")
  /\ UNCHANGED <<eVars, fVars, nVars, cVars>>

NormalizeAgain ==
  /\ nf.stage = 1
  /\ nf' = [nf EXCEPT !.stage = 2, !.twice = NfApply(nf.fn, nf.once)]
  /\ last' = Last("normalizeFilename", nf.once, "")
  /\ UNCHANGED <<eVars, fVars, nVars, cVars>>

\* ----------------------------------------------------------------- inputs
RECURSIVE SeqsUpTo(_, _)
SeqsUpTo(S, n) ==
  IF n = 0 THEN {<<>>}
  ELSE LET shorter == SeqsUpTo(S, n - 1)
       IN shorter \cup {Append(s, x) : s \in {t \in shorter : Len(t) = n - 1}, x \in S}

\* raw strings handed to normalizeFilename
PathTokens == {Slash, ".", "\\", " ", "ws", "WS", "a"}
RawStrings == SeqsUpTo(PathTokens, MaxPathLen)

\* spellings of the resource a: a, /a, ./a, workspace/a, WORKSPACE/a, //a
SpellingsOfA ==
  { <<"a">>, <<Slash, "a">>, <<".", Slash, "a">>, <<"ws", Slash, "a">>,
    <<"WS", Slash, "a">>, <<Slash, Slash, "a">> }

\* contents and metaData handed to FileSystemManager
FContents == {"A", "B"}
FMetaData == {"none", "true", "false", "undefined"}

\* raw filenames handed to the tab operations of FileSystemManager:
\* a, /b, d/a and Web.html
FTabPaths == { <<"a">>, <<Slash, "b">>, <<"d", Slash, "a">>, <<"W">> }

\* paths handed to the tab operations of EnhancedFileSystemManager
TabPaths == { <<Slash, "a">>, <<"b">>, <<Slash, "d", Slash, "a">> }

\* paths, parent paths and names handed to the tree operations: the root under
\* its two spellings, a file a, a directory d and a file a in d; the empty
\* name is invalid
TreeFilePaths == { <<Slash, "a">>, <<Slash, "d", Slash, "a">> }
TreePaths == { <<Slash>>, Empty, <<Slash, "a">>, <<Slash, "d">> }
RootSpellings == { <<Slash>>, Empty }
RootPaths == RootSpellings \cup { <<Slash, "a">> }
TreeFileNames == { <<"a">>, Empty }
TreeDirNames == { <<"d">>, Empty }
TreeNewNames == { <<"b">>, Empty }
\* snapshots: empty, and a directory d holding a file a
TreeExtStructures ==
  { [children |-> kids] :
      kids \in { <<>>, << ExtDir(<<"d">>, << ExtFile(<<"a">>, "A") >>) >> } }

\* paths handed to the structure operations and to openFile of
\* FileSystemManager: files a and b, a file a in d, 'Web.html' at the top, below
\* a second slash and in d, and 'a.jsonsearch'
ExplorerPaths == { <<"b">>, <<"a">>, <<"d", Slash, "a">>, <<"W">> }
ExplorerPathLists ==
  { <<>>,
    << <<"b">>, <<"d", Slash, "b">>, <<"d", Slash, "a">>, <<"a">> >>,
    << <<"a">>, <<"a", Slash, "b">>, <<"W">>, <<".", Slash, "a", "js">> >> }
SpecialPaths ==
  { <<"a">>, <<"W">>, <<Slash, Slash, "W">>, <<"d", Slash, "W">>, <<"a", "js">> }
\* the listeners that subscribe, and the path lists merged while silent
ListenerIds == {"view", "parent"}
SilentPathLists == { <<>>, << <<"a">> >> }
\* the file the editor works on, under two spellings
SavePaths == { <<"a">>, <<Slash, "a">> }
\* the request of handleSave resolves with success, resolves with
\* success == false, or rejects
SaveOutcomes == {"success", "failure", "throws"}
\* names of the files and directories created below the root
ExplorerFileNames == { <<"a">>, <<"b">> }
ExplorerDirNames == { <<"d">>, <<".">> }

\* external structures: up to one file a and one directory d holding a file a
ExtStructures ==
  { [children |-> kids] :
      kids \in { <<>>,
                 << ExtFile(<<"a">>, "A") >>,
                 << ExtFile(<<"b">>, "A"), ExtDir(<<"d">>, << ExtFile(<<"a">>, "A") >>) >> } }

\* the one file the content operations work on, under two spellings
ContentPaths == { <<Slash, "a">>, <<"a">> }
ContentExtStructures ==
  { [children |-> kids] :
      kids \in {<<>>, << ExtFile(<<"a">>, "A"), ExtFile(<<"a">>, "B") >>}
               \cup { << ExtFile(<<"a">>, c) >> : c \in Contents \cup {Undefined} } }
\* a backend snapshot that loads the file a with some content
LoadStructures == { [children |-> << ExtFile(<<"a">>, c) >>] : c \in Contents }
ContentMaps ==
  { m \in SeqsUpTo([path : ContentPaths, content : Contents], MaxMapEntries) : Len(m) > 0 }

\* ----------------------------------------------------------- specifications
\* no timer of handleFileContentChange is pending
NoTimers == [notify |-> FALSE, restore |-> FALSE]

InitManagers ==
  /\ fileMap = [p \in {<<Slash>>} |-> RootNode]
  /\ openTabs = <<>>
  /\ activeTab = Null
  /\ threw = FALSE
  /\ saved = [p \in {} |-> ""]
  /\ pushes = [p \in {} |-> 0]
  /\ files = [p \in {} |-> ""]
  /\ fsOpenTabs = <<>>
  /\ fsActiveTab = Null
  /\ last = Last("init", Empty, "")
  /\ vfs = VRoot
  /\ silentMode = FALSE
  /\ listeners = {}
  /\ invoked = {}
  /\ stale = FALSE
  /\ twin = [st |-> FState([p \in {} |-> ""], <<>>, Null), vfs |-> VRoot]
  /\ timers = NoTimers
  /\ saving = <<>>

Init == InitManagers /\ nf = NfIdle

\* EnhancedFileSystemManager: content, history and reconciliation of one file
Next ==
  \/ \E p \in ContentPaths : EOpenFile(p)
  \/ \E c \in Contents : ECreateFile(<<Slash>>, <<"a">>, c)
  \/ \E p \in ContentPaths, c \in Contents : EUpdateFileContent(p, c)
  \/ \E p \in ContentPaths : ESaveFile(p)
  \/ \E p \in ContentPaths : ERevertFile(p)
  \/ \E p \in ContentPaths : EUndo(p)
  \/ \E p \in ContentPaths : ERedo(p)
  \/ \E x \in ContentExtStructures : EMergeExternalStructure(x)
  \/ \E m \in ContentMaps : EUpdateFileContentMap(m)

Spec == Init /\ [][Next]_vars

\* EnhancedFileSystemManager: a file and the calls that edit it, undo and redo
\* included
NextHistory ==
  \/ \E p \in ContentPaths : EOpenFile(p)
  \/ \E c \in Contents : ECreateFile(<<Slash>>, <<"a">>, c)
  \/ \E p \in ContentPaths, c \in Contents : EUpdateFileContent(p, c)
  \/ \E p \in ContentPaths : ESaveFile(p)
  \/ \E p \in ContentPaths : ERevertFile(p)
  \/ \E p \in ContentPaths : EUndo(p)
  \/ \E p \in ContentPaths : ERedo(p)

SpecHistory == Init /\ [][NextHistory]_vars

\* EnhancedFileSystemManager: a file loaded from the backend, then changed by
\* updateFileContent only, saved and reverted
NextEdit ==
  \/ \E x \in LoadStructures : EMergeExternalStructure(x)
  \/ \E p \in ContentPaths, c \in Contents : EUpdateFileContent(p, c)
  \/ \E p \in ContentPaths : ESaveFile(p)
  \/ \E p \in ContentPaths : ERevertFile(p)

SpecEdit == Init /\ [][NextEdit]_vars

\* EnhancedFileSystemManager: tabs over several paths, with external merges
NextTabs ==
  \/ \E p \in TabPaths : EOpenFile(p)
  \/ \E p \in TabPaths : EActivateTab(p)
  \/ \E p \in TabPaths : ECloseFile(p)
  \/ \E x \in ExtStructures : EMergeExternalStructure(x)

SpecTabs == Init /\ [][NextTabs]_vars

\* EnhancedFileSystemManager: the tree operations, on the root, a file a, a
\* directory d and a file a in d
NextTree ==
  \/ Len(openTabs) < MaxTabs /\ EOpenFile(<<Slash, "a">>)
  \/ \E n \in TreeFileNames : ECreateFile(<<Slash, "d">>, n, "")
  \/ \E n \in TreeDirNames : ECreateDirectory(<<Slash>>, n)
  \/ \E p \in TreePaths : EDeleteNode(p)
  \/ \E p \in TreePaths, n \in TreeNewNames : ERenameNode(p, n)
  \/ \E x \in TreeExtStructures : EMergeExternalStructure(x)

SpecTree == Init /\ [][NextTree]_vars

\* EnhancedFileSystemManager: the root and a file a under every operation that
\* creates, removes, renames or edits
NextRoot ==
  \/ Len(openTabs) < MaxTabs /\ EOpenFile(<<Slash, "a">>)
  \/ ECreateFile(<<Slash>>, <<"a">>, "")
  \/ ECreateDirectory(<<Slash>>, <<"d">>)
  \/ \E p \in RootPaths : EDeleteNode(p)
  \/ \E p \in RootSpellings, n \in TreeNewNames : ERenameNode(p, n)
  \/ EUpdateFileContent(<<Slash, "a">>, "A")
  \/ ESaveFile(<<Slash, "a">>)
  \/ \E x \in TreeExtStructures : EMergeExternalStructure(x)

SpecRoot == Init /\ [][NextRoot]_vars

\* EnhancedFileSystemManager: tabs while nodes are deleted, renamed and merged
NextTreeTabs ==
  \/ Len(openTabs) < MaxTabs /\ \E p \in TreeFilePaths : EOpenFile(p)
  \/ Len(openTabs) < MaxTabs /\ \E p \in TreeFilePaths : EActivateTab(p)
  \/ \E p \in TreeFilePaths : ECloseFile(p)
  \/ \E p \in TreePaths : EDeleteNode(p)
  \/ \E p \in TreePaths \ RootSpellings, n \in TreeNewNames : ERenameNode(p, n)
  \/ \E x \in TreeExtStructures : EMergeExternalStructure(x)

SpecTreeTabs == Init /\ [][NextTreeTabs]_vars

\* the explorer trees of both managers: the virtual file structure under merge
\* and add, getFileTree under createFile and createDirectory
NextExplorer ==
  \/ \E l \in ExplorerPathLists : FMergeExternalFileStructure(l)
  \/ \E p \in ExplorerPaths, isDirectory \in BOOLEAN : FAddFileToVirtualStructure(p, isDirectory)
  \/ \E n \in ExplorerFileNames : ECreateFile(<<Slash>>, n, "")
  \/ \E n \in ExplorerDirNames : ECreateDirectory(<<Slash>>, n)

SpecExplorer == Init /\ [][NextExplorer]_vars

\* FileSystemManager: special files in the structure and in the tabs
NextSpecial ==
  \/ \E l \in ExplorerPathLists : FMergeExternalFileStructure(l)
  \/ \E p \in SpecialPaths, isDirectory \in BOOLEAN : FAddFileToVirtualStructure(p, isDirectory)
  \/ \E p \in SpecialPaths : FOpenFile(p, "A", "none")

SpecSpecial == Init /\ [][NextSpecial]_vars

\* ComputerView: a file opened, edited in the editor and by the stream, and
\* saved through handleSave
NextSave ==
  \/ \E m \in {"none", "false"} : FOpenFile(<<"a">>, "A", m)
  \/ \E p \in SavePaths : FSetActiveTab(p)
  \/ \E p \in SavePaths, c \in FContents : HandleFileContentChange(p, c)
  \/ TimerUpdateSaveButton
  \/ TimerRestoreNotify
  \/ \E p \in SavePaths \cup {Empty}, hasTaskId \in BOOLEAN : HandleSave(p, hasTaskId)
  \/ \E i \in 1..MaxInFlight, outcome \in SaveOutcomes : HandleSaveSettled(i, outcome)

SpecSave == Init /\ [][NextSave]_vars

\* FileSystemManager: every operation while silent mode is switched and
\* listeners come and go
NextSilent ==
  \/ \E c \in FContents, m \in {"none", "false"} : FOpenFile(<<"a">>, c, m)
  \/ FCloseFile(<<"a">>)
  \/ FSetActiveTab(<<"a">>)
  \/ \E c \in FContents : FUpdateFileContent(<<"a">>, c)
  \/ FSaveFile(<<"a">>)
  \/ FRevertFile(<<"a">>)
  \/ \E l \in SilentPathLists : FMergeExternalFileStructure(l)
  \/ \E silent \in BOOLEAN : FSetSilentMode(silent)
  \/ FForceNotify
  \/ \E listener \in ListenerIds : FSubscribe(listener)
  \/ \E listener \in ListenerIds : FUnsubscribe(listener)

SpecSilent == Init /\ [][NextSilent]_vars

\* ComputerView subscribed to the manager: keystrokes in the editor with
\* their timers, and the operations other event sources call meanwhile
NextTyping ==
  \/ FSubscribe("view")
  \/ \E c \in FContents : FOpenFile(<<"a">>, c, "none")
  \/ FCloseFile(<<"a">>)
  \/ FSetActiveTab(<<"a">>)
  \/ FSaveFile(<<"a">>)
  \/ \E l \in SilentPathLists : FMergeExternalFileStructure(l)
  \/ \E c \in FContents : HandleFileContentChange(<<"a">>, c)
  \/ TimerUpdateSaveButton
  \/ TimerRestoreNotify

\* a timer that is pending fires; nothing obliges any event source to call
\* the manager again
SpecTyping ==
  /\ Init
  /\ [][NextTyping]_vars
  /\ WF_vars(TimerUpdateSaveButton)
  /\ WF_vars(TimerRestoreNotify)

\* FileSystemManager: every operation, on the spellings of one resource
NextF ==
  \/ \E p \in SpellingsOfA, c \in FContents, m \in FMetaData : FOpenFile(p, c, m)
  \/ \E p \in SpellingsOfA : FCloseFile(p)
  \/ \E p \in SpellingsOfA : FSetActiveTab(p)
  \/ \E p \in SpellingsOfA, c \in FContents : FUpdateFileContent(p, c)
  \/ \E p \in SpellingsOfA : FSaveFile(p)
  \/ \E p \in SpellingsOfA : FRevertFile(p)

SpecF == Init /\ [][NextF]_vars

\* FileSystemManager: tabs over several files
NextFTabs ==
  \/ \E p \in FTabPaths : FOpenFile(p, "A", "none")
  \/ \E p \in FTabPaths : FCloseFile(p)
  \/ \E p \in FTabPaths : FSetActiveTab(p)

SpecFTabs == Init /\ [][NextFTabs]_vars

\* normalizeFilename applied twice to every raw string
InitNorm ==
  /\ InitManagers
  /\ \E fn \in {"utils", "legacy"}, s \in RawStrings :
       nf = [fn |-> fn, input |-> s, stage |-> 0, once |-> Empty, twice |-> Empty]

NextNorm == NormalizeOnce \/ NormalizeAgain

SpecNorm == InitNorm /\ [][NextNorm]_vars

\* ================================================================ claims

\* ---------------------------------------------------------------------- C1
ActiveNodes == {p \in DOMAIN fileMap : fileMap[p].isActive}

\* C1 (EnhancedFileSystemManager): at most one node is active, the active tab
\* is an open tab and its node is the only active one.
C1_EnhancedSingleActive ==
  /\ Cardinality(ActiveNodes) <= 1
  /\ activeTab # Null =>
       /\ Includes(openTabs, activeTab)
       /\ ActiveNodes = {activeTab}

\* C1 (FileSystemManager): the active tab, when not null, is an open tab.
C1_SimpleActiveIsOpen == fsActiveTab # Null => Includes(fsOpenTabs, fsActiveTab)

\* C1: single active tab - in each manager, after any sequence of open /
\* activate / close calls, at most one record is active and the active tab,
\* when not none, is an element of openTabs.
C1_SingleActiveTab == C1_EnhancedSingleActive /\ C1_SimpleActiveIsOpen

\* ---------------------------------------------------------------------- C2
DirtyOpsF == {"fsOpenFile", "fsUpdateFileContent", "fsSaveFile", "fsRevertFile"}
DirtyOpsE == {"updateFileContent", "undo", "redo", "revertFile", "saveFile",
              "mergeExternalStructure", "updateFileContentMap"}

\* C2: dirty invariant - after every mutating operation the claim lists,
\* every file record has isDirty = (content # saved baseline); the baseline is
\* originalContent in FileSystemManager and the content at creation / last
\* saveFile in EnhancedFileSystemManager.
C2_DirtyInvariant ==
  /\ last.op \in DirtyOpsF =>
       \A f \in DOMAIN files :
         files[f].isDirty = (files[f].content # files[f].originalContent)
  /\ last.op \in DirtyOpsE =>
       \A p \in FilePaths(fileMap) :
         fileMap[p].isDirty = (fileMap[p].content # saved[p])

\* ---------------------------------------------------------------------- C3
Protected(fm) == {p \in FilePaths(fm) : fm[p].isNew \/ fm[p].isLocked}

C3_LockStep ==
  last'.op \in {"mergeExternalStructure", "updateFileContentMap"} =>
    /\ ~threw'
    /\ \A p \in Protected(fileMap) :
         Has(fileMap', p) /\ fileMap'[p].content = fileMap[p].content

\* C3: lock protects against overwrite - mergeExternalStructure and
\* updateFileContentMap, called with any remote content, leave the content of
\* every record that is new or locked unchanged and raise no error.
C3_LockProtects == [][C3_LockStep]_vars

\* ---------------------------------------------------------------------- C4
Unlocked(fm, p) == Has(fm, p) /\ fm[p].type = "file" /\ ~fm[p].isNew /\ ~fm[p].isLocked

\* the files an external structure lists at top level, when it lists each name once
TopFiles(x) ==
  IF \A i, j \in 1..Len(x.children) : x.children[i].name = x.children[j].name => i = j
  THEN {i \in 1..Len(x.children) :
          x.children[i].type = "file" /\ x.children[i].content # Undefined}
  ELSE {}

C4_Step ==
  /\ last'.op = "fsUpdateFileContent" =>
       LET f == last'.path
           c == last'.content
       IN (Has(files, f) /\ files[f].content # c) =>
            (files'[f].content = c /\ ~files'[f].isDirty)
  /\ last'.op = "updateFileContentMap" =>
       LET q == last'.path
           c == last'.content
       IN (Unlocked(fileMap, q) /\ fileMap[q].content # c) =>
            (fileMap'[q].content = c /\ ~fileMap'[q].isDirty)
  /\ last'.op = "mergeExternalStructure" =>
       \A x \in ContentExtStructures :
         fileMap' = mergeExternalStructure(fileMap, x) =>
           \A i \in TopFiles(x) :
             LET q == <<Slash>> \o x.children[i].name
                 c == x.children[i].content
             IN (Unlocked(fileMap, q) /\ fileMap[q].content # c) =>
                  (fileMap'[q].content = c /\ ~fileMap'[q].isDirty)

\* C4: unlocked reconciliation wins - a remote update with content different
\* from the local content of a record that is neither new nor locked leaves
\* content = remote content and isDirty = false (mergeExternalStructure,
\* updateFileContentMap, and the live update through
\* FileSystemManager.updateFileContent).
C4_UnlockedReconciliationWins == [][C4_Step]_vars

\* ---------------------------------------------------------------------- C5
\* C5: revert restores the baseline - after revertFile on a file loaded with
\* content A and changed by updateFileContent calls only, content = A and
\* isDirty = false (FileSystemManager: on an editable file, content =
\* originalContent).
C5_RevertRestoresBaseline ==
  /\ (last.op = "revertFile" /\ last.path \in FilePaths(fileMap)
        /\ pushes[last.path] >= 1) =>
       /\ fileMap[last.path].content = saved[last.path]
       /\ ~fileMap[last.path].isDirty
  /\ (last.op = "fsRevertFile" /\ Has(files, last.path)
        /\ files[last.path].isEditable = "true") =>
       /\ files[last.path].content = files[last.path].originalContent
       /\ ~files[last.path].isDirty

\* ---------------------------------------------------------------------- C6
\* C6: save clears dirty, round trip - updateContent(p, X); save(p) leaves
\* isDirty = false, a following revert(p) leaves content = X and isDirty =
\* false (both managers); FileSystemManager.saveFile returns the saved content,
\* or null for an unknown path.
C6_SaveRoundTrip ==
  /\ (last.op = "saveFile" /\ last.chain = "update" /\ last.path \in FilePaths(fileMap)) =>
       ~fileMap[last.path].isDirty
  /\ (last.op = "revertFile" /\ last.chain = "update;save"
        /\ last.path \in FilePaths(fileMap)) =>
       /\ fileMap[last.path].content = last.content
       /\ ~fileMap[last.path].isDirty
  /\ (last.op = "fsSaveFile" /\ last.chain = "update" /\ Has(files, last.path)) =>
       ~files[last.path].isDirty
  /\ (last.op = "fsRevertFile" /\ last.chain = "update;save" /\ Has(files, last.path)) =>
       /\ files[last.path].content = last.content
       /\ ~files[last.path].isDirty
  /\ last.op = "fsSaveFile" =>
       last.result = IF Has(files, last.path) THEN files[last.path].content ELSE "null"

\* ---------------------------------------------------------------------- C7
\* C7: idempotent normalization - normalizeFilename applied to its own result
\* returns that result, for every raw string.
C7_IdempotentNormalization == nf.stage = 2 => nf.twice = nf.once

\* ---------------------------------------------------------------------- C8
ResourceKeys == {normalizeFilename(s) : s \in SpellingsOfA}

\* C8: one record per canonical path - after any sequence of calls that name
\* one resource by different spellings, the file map holds one record and
\* openTabs at most one entry for it.
C8_OneRecordPerResource ==
  /\ Cardinality(ResourceKeys \cap DOMAIN files) <= 1
  /\ Cardinality({i \in 1..Len(fsOpenTabs) : fsOpenTabs[i] \in ResourceKeys}) <= 1

\* ---------------------------------------------------------------------- C9
C9_Bounds ==
  \A p \in FilePaths(fileMap) :
    /\ Len(fileMap[p].history) <= HistoryCap
    /\ 0 <= fileMap[p].historyIndex
    /\ fileMap[p].historyIndex <= Len(fileMap[p].history) - 1

\* after at least history.length - 1 undo calls in a row the cursor is at the
\* oldest retained snapshot, which is the content, and nothing was thrown
C9_UndoReachesOldest ==
  (last.op = "undo" /\ last.path \in FilePaths(fileMap)
     /\ last.run >= Len(fileMap[last.path].history) - 1) =>
    /\ fileMap[last.path].historyIndex = 0
    /\ fileMap[last.path].content = fileMap[last.path].history[1]
    /\ ~threw

\* an undo at the boundary changes nothing and throws nothing
C9_UndoAtBoundary ==
  (last'.op = "undo" /\ last'.path \in FilePaths(fileMap)
     /\ fileMap[last'.path].historyIndex <= 0) =>
    /\ fileMap' = fileMap /\ openTabs' = openTabs /\ activeTab' = activeTab
    /\ ~threw'

\* C9: undo/redo bounds - after any sequence of updateFileContent / undo /
\* redo / saveFile / revertFile calls, history.length <= the cap and
\* 0 <= historyIndex <= history.length - 1; undo repeated history.length - 1
\* times ends at historyIndex = 0 with content = history[0]; a further undo is
\* a no-op that raises nothing.
C9_UndoRedoBounds ==
  /\ [](C9_Bounds /\ C9_UndoReachesOldest)
  /\ [][C9_UndoAtBoundary]_vars

\* C9 witness: more pushes than the cap, then HistoryCap - 1 undo calls in a
\* row down to the oldest retained snapshot
C9_Witness ==
  /\ last.op = "undo"
  /\ last.path \in FilePaths(fileMap)
  /\ pushes[last.path] > HistoryCap
  /\ Len(fileMap[last.path].history) = HistoryCap
  /\ last.run = HistoryCap - 1
  /\ fileMap[last.path].historyIndex = 0
  /\ fileMap[last.path].content = fileMap[last.path].history[1]
  /\ fileMap[last.path].content # saved[last.path]

\* --------------------------------------------------------------------- C10
\* what closing the tab at zero-based index i of tabs must do to the tabs and
\* the active tab
AdjacentRule(tabs, act, p, tabsAfter, actAfter) ==
  LET i == IndexOf(tabs, p)
  IN i # -1 =>
       /\ tabsAfter = Splice(tabs, i)
       /\ IF act = p
          THEN IF Len(tabsAfter) = 0 THEN actAfter = Null
               ELSE actAfter = tabsAfter[Min(i, Len(tabsAfter) - 1) + 1]
          ELSE actAfter = act

C10_Step ==
  /\ last'.op = "closeFile" =>
       AdjacentRule(openTabs, activeTab, last'.path, openTabs', activeTab')
  /\ last'.op = "fsCloseFile" =>
       AdjacentRule(fsOpenTabs, fsActiveTab, last'.path, fsOpenTabs', fsActiveTab')

\* C10: close selects the adjacent tab - closing the active tab at index i
\* makes the tab now at index min(i, newLength - 1) active, or none when no
\* tab remains; closing another tab leaves the active tab unchanged; the
\* remaining tabs keep their order.
C10_CloseSelectsAdjacent == [][C10_Step]_vars

\* --------------------------------------------------------------------- C11
\* the manager's store is as a call found it
StoreUnchanged == fileMap' = fileMap /\ openTabs' = openTabs /\ activeTab' = activeTab

C11_Step ==
  (last'.op = "deleteNode" /\ last'.path = <<Slash>>) => (threw' /\ StoreUnchanged)

\* C11: deleteNode called with a spelling of the root raises an error and
\* leaves the file map, openTabs and activeTab exactly as they were.
C11_RootCannotBeDeleted == [][C11_Step]_vars

\* a rejected deletion of the root of a store that holds other nodes
C11_Witness ==
  /\ last.op = "deleteNode" /\ last.path = <<Slash>> /\ threw
  /\ Cardinality(DOMAIN fileMap) > 2
  /\ Len(openTabs) > 0

\* --------------------------------------------------------------------- C12
C12_RootExists ==
  /\ Has(fileMap, <<Slash>>)
  /\ fileMap[<<Slash>>].type = "directory"

C12_RenameStep ==
  (last'.op = "renameNode" /\ last'.path = <<Slash>>) => (threw' /\ StoreUnchanged)

\* C12: after any sequence of calls the file map holds a directory record at
\* key '/', and an attempt to rename the root is rejected.
C12_RootAlwaysExists == [][C12_RenameStep]_vars /\ []C12_RootExists

\* --------------------------------------------------------------------- C13
\* C13: every open tab and the active tab (when set) is a key of the file
\* map, and a node's isOpen flag is true exactly when its path is an open tab.
C13_TabsReferenceRecords ==
  /\ \A i \in 1..Len(openTabs) : Has(fileMap, openTabs[i])
  /\ Truthy(activeTab) => Has(fileMap, activeTab)
  /\ \A p \in DOMAIN fileMap : fileMap[p].isOpen <=> Includes(openTabs, p)

\* --------------------------------------------------------------------- C14
\* the call just made had to be rejected: its name is invalid or its target
\* path exists, or it deletes the root
C14_MustReject ==
  \/ /\ last'.op \in {"createFile", "createDirectory"}
     /\ (Has(fileMap, last'.path) \/ ~isValidFileName(last'.arg))
  \/ /\ last'.op = "renameNode"
     /\ Has(fileMap, last'.path)
     /\ \/ ~isValidFileName(last'.arg)
        \/ Has(fileMap, joinPath(OrSlash(fileMap[last'.path].parent), last'.arg))
  \/ last'.op = "deleteNode" /\ last'.path = <<Slash>>

C14_Step ==
  /\ C14_MustReject => threw'
  /\ (threw' /\ last'.op \in {"createFile", "createDirectory", "renameNode", "deleteNode"})
       => StoreUnchanged

\* C14: createFile, createDirectory and renameNode raise when the name is
\* invalid or the target path exists, deleteNode raises for the root, and a
\* call that raises leaves the file map, openTabs and activeTab as they were.
C14_ValidationAppliesNothing == [][C14_Step]_vars

\* createFile rejected for an invalid name under a parent directory that
\* does not exist
C14_Witness ==
  /\ last.op = "createFile" /\ threw
  /\ ~isValidFileName(last.arg)
  /\ ~Has(fileMap, <<Slash, "d">>)
  /\ Cardinality(DOMAIN fileMap) > 1

\* --------------------------------------------------------------------- C18
IsProtected(node) == node.isNew \/ node.isLocked

\* the paths a snapshot lists below parentPath
RECURSIVE ListedPaths(_, _)
ListedPaths(children, parentPath) ==
  UNION { LET fullPath == joinPath(parentPath, children[i].name)
          IN {fullPath} \cup ListedPaths(children[i].children, fullPath) :
          i \in 1..Len(children) }

C18_Step ==
  last'.op = "mergeExternalStructure" =>
    LET listed == ListedPaths(last'.snapshot, <<Slash>>)
    IN /\ \A p \in DOMAIN fileMap :
            IsProtected(fileMap[p]) =>
              Has(fileMap', p) /\ fileMap'[p].content = fileMap[p].content
       /\ \A p \in DOMAIN fileMap \cap DOMAIN fileMap' :
            (p # <<Slash>> /\ ~IsProtected(fileMap[p])) => p \in listed
       /\ \A p \in listed : Has(fileMap', p)

\* C18: mergeExternalStructure(S) keeps every protected record with its
\* content, leaves no unprotected record whose path S does not list, and
\* gives every path S lists a record.
C18_RemergeKeepsProtectedPlusSnapshot == [][C18_Step]_vars

\* --------------------------------------------------------------------- C16
\* at every level the directories precede the files and each group is in
\* ascending name order
RECURSIVE IsOrdered(_)
IsOrdered(node) ==
  /\ \A i, j \in 1..Len(node.children) :
       i < j =>
         /\ ~(node.children[i].type = "file" /\ node.children[j].type = "directory")
         /\ node.children[i].type = node.children[j].type
              => localeCompare(node.children[i].name, node.children[j].name) <= 0
  /\ \A i \in 1..Len(node.children) : IsOrdered(node.children[i])

\* C16: the virtual file structure after every merge and add, and the tree
\* getFileTree returns for every store, have at every level the directories
\* before the files and each group in ascending name order.
C16_TreeSortOrder ==
  /\ IsOrdered(vfs)
  /\ ~getFileTreeThrows(fileMap) => IsOrdered(getFileTree(fileMap))

\* both trees hold a directory and two files at one level, and the structure
\* was built by adding the files before the directory
C16_Witness ==
  /\ last.op = "addFileToVirtualStructure"
  /\ Len(vfs.children) >= 3
  /\ vfs.children[1].type = "directory" /\ vfs.children[2].type = "file"
  /\ Len(getFileTree(fileMap).children) >= 3
  /\ getFileTree(fileMap).children[1].type = "directory"
  /\ getFileTree(fileMap).children[3].type = "file"

\* --------------------------------------------------------------------- C17
\* the names of the nodes of a structure
RECURSIVE NodeNames(_)
NodeNames(node) ==
  {node.name} \cup UNION {NodeNames(node.children[i]) : i \in 1..Len(node.children)}

\* the file name of a path: its last part
BaseName(filename) ==
  LET parts == SplitParts(filename)
  IN IF parts = <<>> THEN Empty ELSE parts[Len(parts)]

\* C17: no node of the virtual file structure has a name that ends in
\* '.jsonsearch' or is 'Web.html', and no file of that name is an open tab.
C17_SpecialFilesHidden ==
  /\ \A name \in NodeNames(vfs) : ~isSpecialPart(name)
  /\ \A i \in 1..Len(fsOpenTabs) : ~isSpecialPart(BaseName(fsOpenTabs[i]))

\* --------------------------------------------------------------------- C15
C15_Step ==
  (last'.op = "handleSaveSettled" /\ last'.result # "success") =>
    /\ files' = files /\ fsOpenTabs' = fsOpenTabs /\ fsActiveTab' = fsActiveTab
    /\ (last.op = "handleSave" /\ last.result = "sent" /\ last.path = last'.path)
         => /\ files'[last'.path].isDirty
            /\ handleSaveTarget(FState(files', fsOpenTabs', fsActiveTab'), last'.path, TRUE)
                 = last'.path

\* C15: when the save request of handleSave throws or reports success ==
\* false, the store is as it was; a file whose save has just been sent is still
\* dirty and handleSave accepts it again.
C15_FailedSaveKeepsDirty == [][C15_Step]_vars

\* a failed save of a file that is dirty and differs from its baseline
C15_Witness ==
  /\ last.op = "handleSaveSettled" /\ last.result = "throws"
  /\ Has(files, last.path)
  /\ files[last.path].isDirty
  /\ files[last.path].content # files[last.path].originalContent

\* --------------------------------------------------------------------- C19
\* the store equals the store of the same calls made with silent mode off
C19_SameState ==
  /\ twin.st = FCur
  /\ twin.vfs = vfs

C19_ForcedStep ==
  (\/ last'.op = "forceNotify"
   \/ (last'.op = "fsRevertFile" /\ last'.result = "true"))
    => invoked' = listeners

C20_SilentOnlyDelays == stale ~> ~stale

\* --------------------------------------------------------------------- C21
C21_Step ==
  (last'.op = "fsOpenFile" /\ Has(files, last'.path)) =>
    /\ files'[last'.path].content = files[last'.path].content
    /\ files'[last'.path].isDirty = files[last'.path].isDirty

\* C21: a direct FileSystemManager.openFile (history-mode effect, new-file
\* dialog, file click) on a path that already has a record leaves the
\* record's content and isDirty flag as they were.
C21_DirectOpenKeepsLocalContent == [][C21_Step]_vars

\* --------------------------------------------------------------------- C22
\* the paths at directory d or below it
InSubtree(p, d) == p = d \/ StartsWith(p, d \o <<Slash>>)

\* the path a reference to p has after the directory d became newPath
Moved(p, d, newPath) ==
  IF p # Null /\ InSubtree(p, d) THEN newPath \o Substring(p, Len(d)) ELSE p

C22_Step ==
  LET d == last'.path
      newPath == joinPath(OrSlash(fileMap[d].parent), last'.arg)
  IN (/\ last'.op = "renameNode" /\ ~threw'
      /\ Has(fileMap, d) /\ fileMap[d].type = "directory" /\ d # <<Slash>>) =>
       /\ \A k \in DOMAIN fileMap' : ~InSubtree(k, d)
       /\ \A k \in DOMAIN fileMap :
            (InSubtree(k, d) /\ k # d) =>
              LET nk == Moved(k, d, newPath)
              IN /\ Has(fileMap', nk)
                 /\ fileMap'[nk].path = nk
                 /\ fileMap'[nk].parent = getParentPath(nk)
                 /\ fileMap'[nk].content = fileMap[k].content
       /\ Len(openTabs') = Len(openTabs)
       /\ \A i \in 1..Len(openTabs) : openTabs'[i] = Moved(openTabs[i], d, newPath)
       /\ activeTab' = Moved(activeTab, d, newPath)

\* C22: after a successful renameNode of a directory d to name n no record is
\* keyed at d or below it, every former descendant is keyed at the matching
\* path under the new directory with path and parent fields to match and its
\* content unchanged, and every openTabs entry and the activeTab that referred
\* to d or a descendant refers to the new path, at the same tab position.
C22_RenameMovesSubtreeAndTabs == [][C22_Step]_vars

\* --------------------------------------------------------------------- C23
C23_Step ==
  LET p == last'.path
  IN (last'.op = "deleteNode" /\ p # <<Slash>>) =>
       /\ \A k \in DOMAIN fileMap' : ~InSubtree(k, p)
       /\ \A i \in 1..Len(openTabs') : ~InSubtree(openTabs'[i], p)
       /\ activeTab' = Null \/ ~InSubtree(activeTab', p)
       /\ \A k \in DOMAIN fileMap :
            ~InSubtree(k, p) => (Has(fileMap', k) /\ fileMap'[k] = fileMap[k])

\* C23: after deleteNode(p) for a path p other than the root, whatever calls
\* came before, no record is keyed at p or below it, no such path is in
\* openTabs or is the activeTab, and the records outside the subtree are as
\* they were.
C23_DeleteIsRecursiveAndClosesTabs == [][C23_Step]_vars

\* --------------------------------------------------------------------- C24
\* C24: with keystrokes interleaved with a handleSave whose request is in
\* flight, once the request succeeds the record's originalContent is the
\* content that was sent, and isDirty is false only if the current content is
\* that persisted content.
C24_SavedBaselineIsPersisted ==
  (/\ last.op = "handleSaveSettled" /\ last.result = "success"
   /\ Has(files, last.path)) =>
     /\ files[last.path].originalContent = last.content
     /\ ~files[last.path].isDirty => files[last.path].content = last.content

\* --------------------------------------------------------------------- C25
\* the remote update of the step before was accepted for the record at q
C25_Accepted(q) ==
  /\ last.op = "updateFileContentMap" /\ last.result = "accepted" /\ last.path = q
  /\ Has(fileMap, q)

C25_Step ==
  \A q \in DOMAIN fileMap :
    C25_Accepted(q) =>
      /\ (last'.op = "revertFile" /\ last'.path = q) =>
           fileMap'[q].content = last.content
      /\ \A c \in Contents :
           LET edited == updateFileContent(fileMap, q, c)
           IN ~updateFileContent(edited, q, last.content)[q].isDirty

\* C25: after updateFileContentMap changed the content of a record that is
\* neither new nor locked to the remote content, a revertFile that follows
\* leaves the content equal to that remote content, and an edit away from it
\* and back to it leaves isDirty false.
C25_RemoteSnapshotIsBaseline == [][C25_Step]_vars

\* --------------------------------------------------------------------- C26
C26_Step ==
  LET p == last'.path
      X == last'.content
  IN (/\ last'.op = "updateFileContent"
      /\ Has(fileMap, p) /\ fileMap[p].type = "file") =>
       /\ fileMap'[p].content = X
       /\ fileMap'[p].isDirty = (X # saved[p])
       /\ pushes'[p] = Min(pushes[p] + 1, HistoryCap + 1)

\* C26: updateFileContent(p, X) on any existing file record, a new or locked
\* one included, sets its content to X, recomputes isDirty against the saved
\* baseline and records a history entry.
C26_UserEditsBypassLock == [][C26_Step]_vars

\* --------------------------------------------------------------------- C27
CursorOps == {"createFile", "updateFileContent", "undo", "redo", "saveFile", "revertFile"}

\* node.history[node.historyIndex], the index counted from zero
AtCursor(node) == node.history[node.historyIndex + 1]

C27_CursorIsContent ==
  (last.op \in CursorOps /\ Has(fileMap, last.path) /\ fileMap[last.path].type = "file") =>
    /\ fileMap[last.path].historyIndex \in 0..(Len(fileMap[last.path].history) - 1)
    /\ AtCursor(fileMap[last.path]) = fileMap[last.path].content

C27_PushStep ==
  LET p == last'.path
  IN (/\ last'.op = "updateFileContent"
      /\ Has(fileMap, p) /\ fileMap[p].type = "file" /\ ~fileMap[p].isLocked
      /\ fileMap[p].historyIndex < Len(fileMap[p].history) - 1
      /\ Len(fileMap[p].history) < HistoryCap) =>
       /\ fileMap'[p].historyIndex = fileMap[p].historyIndex + 1
       /\ Len(fileMap'[p].history) = fileMap'[p].historyIndex + 1
       /\ SubSeq(fileMap'[p].history, 1, fileMap[p].historyIndex + 1)
            = SubSeq(fileMap[p].history, 1, fileMap[p].historyIndex + 1)

\* C27: after createFile, updateFileContent, undo, redo, saveFile and
\* revertFile the history entry at historyIndex is the record's current
\* content (so one undo after the edits A, B, C yields B), and an edit made
\* when the cursor is not at the tail discards the entries after the cursor.
C27_HistoryCursorTracksContent == []C27_CursorIsContent /\ [][C27_PushStep]_vars

\* --------------------------------------------------------------------- C28
\* the content of the record at p after the calls
ContentAt(fm, p) == fm[p].content

C28_UndoRedo ==
  \A p \in FilePaths(fileMap) :
    canUndo(fileMap, p) =>
      ContentAt(redo(undo(fileMap, p), p), p) = ContentAt(fileMap, p)

C28_RedoUndo ==
  \A p \in FilePaths(fileMap) :
    canRedo(fileMap, p) =>
      ContentAt(undo(redo(fileMap, p), p), p) = ContentAt(fileMap, p)

\* C28: whenever canUndo holds, undo followed by redo restores the content
\* from before the undo; whenever canRedo holds, redo followed by undo restores
\* the content from before the redo.
C28_UndoRedoRoundTrip == C28_UndoRedo /\ C28_RedoUndo

\* --------------------------------------------------------------------- C29
\* C29: whenever handleFileContentChange has switched the store into silent
\* mode, for a filename with a record or without one, silent mode is
\* eventually switched off again once the pending timers fire.
C29_SilentModeReleased == silentMode ~> ~silentMode

\* --------------------------------------------------------------------- C30
\* C30: after any sequence of createFile, createDirectory, openFile,
\* deleteNode, renameNode and mergeExternalStructure calls every record other
\* than the root has a parent field that names a directory record of the
\* file map.
C30_EveryRecordHasParentDirectory ==
  \A k \in DOMAIN fileMap :
    k # <<Slash>> =>
      /\ Has(fileMap, fileMap[k].parent)
      /\ fileMap[fileMap[k].parent].type = "directory"

====
